---- MODULE Spec2Model ----
(***************************************************************************)
(* Model of the Steam integration's polling/caching client                 *)
(* (uc_intg_steam/client.py) together with the part of the driver's update *)
(* loop that routes the client's results to the two media-player entities  *)
(* (uc_intg_steam/driver.py, uc_intg_steam/media_player.py).               *)
(*                                                                         *)
(* Python values are represented as follows.                               *)
(*   None / a missing dict key   the empty sequence <<>>                   *)
(*   a present value v           the one-element sequence <<v>>            *)
(*   a list                      a sequence                                *)
(*   a dict with known keys      a record                                  *)
(*   a str                       a string; an exception message, which the *)
(*                               code searches for substrings, is the      *)
(*                               sequence of the fragments it was          *)
(*                               formatted from                            *)
(***************************************************************************)
EXTENDS Integers, Sequences, FiniteSets, TLC

\* ------------------------------------------------------------------ bounds

\* Longest friend list the upstream returns under Spec.
MaxFriends == 2
\* Longest player list of one summary response.
MaxPlayers == 2
\* Longest friend list the upstream returns under SpecBatch.
MaxBatchFriends == 250

\* client.py:204  batch_size = 100
batch_size == 100

None == <<>>
Some(v) == <<v>>

\* ------------------------------------------------- upstream answers (JSON)

\* A player entry of a summary response.
Player(steamid, personaname, personastate, gameid, gameextrainfo) ==
    [steamid |-> steamid, personaname |-> personaname,
     personastate |-> personastate, gameid |-> gameid,
     gameextrainfo |-> gameextrainfo]

\* The first entry of the player list answered for the configured account:
\* in no game, with one of the two game fields only, and in a game (two app
\* ids share the name "Portal").
OwnPlayers ==
    { Player(Some(0), Some("me"), Some(1), None, None),
      Player(Some(0), Some("me"), Some(1), Some("10"), None),
      Player(Some(0), Some("me"), Some(1), None, Some("Portal")),
      Player(Some(0), Some("me"), Some(1), Some("10"), Some("Portal")),
      Player(Some(0), Some("me"), None, Some("20"), Some("Portal")),
      Player(Some(0), Some("me"), Some(1), Some("20"), Some("Hades")) }

\* Entries of the player lists answered for a batch of friends: two friends
\* online, one offline (no personastate), one online entry without steamid.
FriendPlayers ==
    { Player(Some(1), Some("Ann"), Some(1), Some("10"), Some("Portal")),
      Player(Some(2), None, Some(3), None, None),
      Player(Some(3), Some("Bob"), None, None, None),
      Player(None, Some("Eve"), Some(1), None, None) }

\* A decoded JSON body.  shape tells how far the expected nesting
\* {outer: {inner: [...]}} is present: "null" (the body is JSON null),
\* "no_outer" (a dict without the outer key), "no_inner" (the outer dict lacks
\* the list), "ok".
Shapes == {"null", "no_outer", "no_inner", "ok"}

Body(shape, players, friends) ==
    [shape |-> shape, players |-> players, friends |-> friends]

NoBody == Body("null", <<>>, <<>>)

\* Texts of the exceptions the HTTP library raises.  The second one carries
\* the peer address, as a failed connect does.
ServerDisconnected == "Server disconnected"
ConnectFailed ==
    "Cannot connect to host api.steampowered.com:80 ssl:default [Connect call failed ('2600:1406:503::b81', 80, 0, 0)]"
JsonDecodeFailed == "Expecting value: line 1 column 1 (char 0)"
\* str(e) of the asyncio.TimeoutError raised when ClientTimeout(total=30) expires.
TimedOut == ""

\* What the upstream does with one HTTP request:
\*   "response"      an HTTP response with a status; with 200 the payload
\*                   decodes to body
\*   "client_error"  session.get or response.json raises an
\*                   aiohttp.ClientError
\*   "exception"     they raise any other exception (timeout, undecodable
\*                   payload)
Response(status, body) ==
    [kind |-> "response", status |-> status, text |-> "", body |-> body]
ClientError(text) ==
    [kind |-> "client_error", status |-> 0, text |-> text, body |-> NoBody]
OtherException(text) ==
    [kind |-> "exception", status |-> 0, text |-> text, body |-> NoBody]

ErrorStatuses == {401, 403, 500, 502, 503, 504}

Failures ==
    {Response(s, NoBody) : s \in ErrorStatuses}
        \cup {ClientError(ServerDisconnected), ClientError(ConnectFailed),
              OtherException(JsonDecodeFailed), OtherException(TimedOut)}

\* ------------------------------------------------------------ exceptions

\* The outcome of a call that may raise: exc is None when it returned data.
Return(data) == [exc |-> None, data |-> data]
Raise(cls, msg) == [exc |-> Some([cls |-> cls, msg |-> msg]), data |-> NoBody]

\* `needle in fragment` for the needles the code searches and the fragments
\* its messages are formatted from.
FragmentContains(fragment, needle) ==
    \/ fragment = needle
    \/ /\ fragment = "Access denied - check Steam ID and privacy settings"
       /\ needle = "Access denied"
    \/ /\ fragment = "Steam servers temporarily unavailable (HTTP "
       /\ needle = "temporarily unavailable"
    \/ /\ fragment = ConnectFailed
       /\ needle = "503"

\* `needle in str(e)`
Contains(msg, needle) ==
    \E i \in 1..Len(msg) : FragmentContains(msg[i], needle)

\* An except clause catches the exceptions of its class and its subclasses;
\* every class raised here derives from Exception.
Catches(clause, cls) == clause = "Exception" \/ clause = cls

\* The first clause of a try statement that catches cls, "uncaught" when
\* none does and the exception propagates to the caller.
Handler(clauses, cls) ==
    IF \E i \in 1..Len(clauses) : Catches(clauses[i], cls)
    THEN clauses[CHOOSE i \in 1..Len(clauses) :
                    /\ Catches(clauses[i], cls)
                    /\ \A j \in 1..(i - 1) : ~Catches(clauses[j], cls)]
    ELSE "uncaught"

\* ------------------------------------------------------------- transport

\* What one client holds of HTTP sessions: held tells whether self.session
\* is set, open counts the aiohttp.ClientSession objects the client created
\* and has not closed.
NoSession == [held |-> FALSE, open |-> 0]

\* Variant of connect: a session is created whether or not one is held.
connect_Always(session) == [held |-> TRUE, open |-> session.open + 1]

\* client.py:50-55 and 66-67: a session is created only when none is held.
connect(session) ==
    IF ~session.held
    THEN [held |-> TRUE, open |-> session.open + 1]
    ELSE session

\* client.py:57-62: the held session is closed and self.session cleared.
disconnect(session) ==
    IF session.held
    THEN [held |-> FALSE, open |-> session.open - 1]
    ELSE session

\* client.py:78-86: the message raised for a status other than 200.
StatusMessage(status) ==
    IF status = 401 THEN <<"Invalid API key">>
    ELSE IF status = 403
    THEN <<"Access denied - check Steam ID and privacy settings">>
    ELSE IF status \in {502, 503, 504}
    THEN <<"Steam servers temporarily unavailable (HTTP ", ToString(status), ")">>
    ELSE <<"API request failed with status ", ToString(status)>>

\* client.py:72-90.  The SteamAPIError raised for a status is raised inside
\* the try block and is no aiohttp.ClientError, so the `except Exception`
\* clause catches it and raises it again behind "Unexpected error: ".
make_request(answer) ==
    IF answer.kind = "client_error"
    THEN Raise("SteamAPIError", <<"Network error: ", answer.text>>)
    ELSE IF answer.kind = "exception"
    THEN Raise("SteamAPIError", <<"Unexpected error: ", answer.text>>)
    ELSE IF answer.status = 200
    THEN Return(answer.body)
    ELSE Raise("SteamAPIError",
               <<"Unexpected error: ">> \o StatusMessage(answer.status))

\* A request as the upstream sees it.
Request(endpoint, ids) == [endpoint |-> endpoint, ids |-> ids]

\* The configured account (steam_id), the default of get_player_summaries.
OwnIds == <<0>>

\* client.py:92-98
get_player_summaries(answer) == make_request(answer)

\* client.py:110
IsPrivateProfile(msg) ==
    Contains(msg, "403") \/ Contains(msg, "Forbidden") \/ Contains(msg, "Access denied")

\* Variant of PrivateProfileFriends: a payload without the "friendslist" key.
PrivateProfileFriends_NoList == Body("no_outer", <<>>, <<>>)

\* client.py:112  {"friendslist": {"friends": []}}
PrivateProfileFriends == Body("ok", <<>>, <<>>)

\* client.py:100-114
get_friend_list(answer) ==
    LET r == make_request(answer)
    IN  IF r.exc # None /\ Catches("SteamAPIError", r.exc[1].cls)
                        /\ IsPrivateProfile(r.exc[1].msg)
        THEN Return(PrivateProfileFriends)
        ELSE r

\* Variant of IsTemporarilyUnavailable: the two status codes only.
IsTemporarilyUnavailable_CodesOnly(msg) ==
    Contains(msg, "502") \/ Contains(msg, "503")

\* client.py:169 and 236
IsTemporarilyUnavailable(msg) ==
    \/ Contains(msg, "temporarily unavailable")
    \/ Contains(msg, "502")
    \/ Contains(msg, "503")

\* ------------------------------------------------------- currently playing

\* Python truth of the cached playing value: None is false, a tuple of two
\* elements is true whatever it holds.
PlayingCached(cache) == cache.currently_playing # None

\* The pair (game_data, image_url).
Pair(game, image) == [game |-> game, image |-> image]
NotPlaying == Pair(None, None)

\* client.py:147
LibraryImageUrl(appid) ==
    "https://cdn.cloudflare.steamstatic.com/steam/apps/" \o appid \o "/library_600x900.jpg"

\* client.py:246-249
get_game_image_url(appid) ==
    "https://cdn.cloudflare.steamstatic.com/steam/apps/" \o appid \o "/header.jpg"

\* Variant of StoreArtwork: the game name is stored in place of the URL.
StoreArtwork_Name(artwork, game_name, image_url) ==
    [n \in DOMAIN artwork \cup {game_name} |->
        IF n = game_name THEN game_name ELSE artwork[n]]

\* client.py:148  STEAM_ARTWORK_CACHE[game_name] = image_url
StoreArtwork(artwork, game_name, image_url) ==
    [n \in DOMAIN artwork \cup {game_name} |->
        IF n = game_name THEN image_url ELSE artwork[n]]

\* client.py:123-126 and 130-133: the cached pair when there is one.
CachedOrNotPlaying(cache) ==
    IF PlayingCached(cache) THEN cache.currently_playing[1] ELSE NotPlaying

\* The outcome of the try block or of a handler of get_currently_playing.
\* cache and artwork are the two module-level caches as the block leaves
\* them; stored tells whether it assigned STEAM_DATA_CACHE["currently_playing"].
PlayingOutcome(exc, ret, cache, artwork) ==
    [exc |-> exc, ret |-> ret, cache |-> cache, artwork |-> artwork,
     stored |-> FALSE]

\* client.py:160 and 165
StorePlaying(result, cache, artwork) ==
    [exc |-> None, ret |-> result,
     cache |-> [cache EXCEPT !.currently_playing = Some(result)],
     artwork |-> artwork, stored |-> TRUE]

\* client.py:137-166: the first player entry decides.
PlayingFromPlayer(player, cache, artwork) ==
    IF player.gameid # None /\ player.gameextrainfo # None
    THEN LET game_name == player.gameextrainfo[1]
             appid == player.gameid[1]
             hit == game_name \in DOMAIN artwork
             image_url == IF hit THEN artwork[game_name] ELSE LibraryImageUrl(appid)
             game_data == [appid |-> appid, name |-> game_name,
                           personastate |-> IF player.personastate = None
                                            THEN 0 ELSE player.personastate[1]]
             result == Pair(Some(game_data), Some(image_url))
         IN  StorePlaying(result, cache,
                          IF hit THEN artwork
                          ELSE StoreArtwork(artwork, game_name, image_url))
    ELSE StorePlaying(NotPlaying, cache, artwork)

\* client.py:119-166, the try block.
PlayingTry(cache, artwork, answer) ==
    LET r == get_player_summaries(answer)
        data == r.data
    IN  IF r.exc # None
        THEN PlayingOutcome(r.exc, NotPlaying, cache, artwork)
        ELSE IF data.shape = "null"
        THEN PlayingOutcome(Some([cls |-> "TypeError",
                                  msg |-> <<"argument of type 'NoneType' is not iterable">>]),
                            NotPlaying, cache, artwork)
        ELSE IF data.shape \in {"no_outer", "no_inner"}
        THEN PlayingOutcome(None, CachedOrNotPlaying(cache), cache, artwork)
        ELSE IF data.players = <<>>
        THEN PlayingOutcome(None, CachedOrNotPlaying(cache), cache, artwork)
        ELSE PlayingFromPlayer(data.players[1], cache, artwork)

\* Variant of PlayingExceptClauses: without the `except Exception` clause.
PlayingExceptClauses_ApiErrorOnly == <<"SteamAPIError">>

\* client.py:168 and 180: the except clauses of get_currently_playing.
PlayingExceptClauses == <<"SteamAPIError", "Exception">>

\* client.py:169-179: the SteamAPIError handler.
PlayingOnApiError(msg, cache) ==
    IF IsTemporarilyUnavailable(msg)
    THEN IF PlayingCached(cache) THEN cache.currently_playing[1] ELSE NotPlaying
    ELSE NotPlaying

\* client.py:116-182.  raised tells whether an exception reaches the caller.
get_currently_playing(cache, artwork, answer) ==
    LET t == PlayingTry(cache, artwork, answer)
        h == IF t.exc = None THEN "none"
             ELSE Handler(PlayingExceptClauses, t.exc[1].cls)
    IN  [raised |-> h = "uncaught",
         ret |-> IF h = "none" THEN t.ret
                 ELSE IF h = "SteamAPIError"
                 THEN PlayingOnApiError(t.exc[1].msg, cache)
                 ELSE NotPlaying,
         cache |-> t.cache,
         artwork |-> t.artwork,
         stored |-> t.stored,
         requests |-> <<Request("GetPlayerSummaries", OwnIds)>>]

\* ---------------------------------------------------------- online friends

\* Python truth of the cached friends value: None and the empty list are
\* false.
FriendsCached(cache) ==
    cache.friends_data # None /\ cache.friends_data[1] # <<>>

\* client.py:191-195
CachedOrNoFriends(cache) ==
    IF FriendsCached(cache) THEN cache.friends_data[1] ELSE <<>>

KeyError(key) == Some([cls |-> "KeyError", msg |-> <<key>>])
NoneTypeError ==
    Some([cls |-> "TypeError", msg |-> <<"argument of type 'NoneType' is not iterable">>])

\* client.py:197: friend["steamid"] of every entry, a KeyError when one
\* entry has none.
FriendSteamIds(friends) == [i \in 1..Len(friends) |-> friends[i].steamid[1]]

\* Variant of PersonaState: a player without personastate counts as online.
PersonaState_DefaultOnline(player) ==
    IF player.personastate = None THEN 1 ELSE player.personastate[1]

\* player.get("personastate", 0)
PersonaState(player) ==
    IF player.personastate = None THEN 0 ELSE player.personastate[1]

\* client.py:218-224
FriendInfo(player) ==
    [steamid |-> player.steamid[1],
     personaname |-> IF player.personaname = None THEN "Unknown"
                     ELSE player.personaname[1],
     personastate |-> PersonaState(player),
     gameextrainfo |-> player.gameextrainfo,
     gameid |-> player.gameid]

\* client.py:216-225: the players from the j-th on, appended to
\* all_online_friends in place; a KeyError leaves what was appended before.
RECURSIVE AppendOnline(_, _, _)
AppendOnline(players, j, all_online_friends) ==
    IF j > Len(players)
    THEN [exc |-> None, friends |-> all_online_friends]
    ELSE IF PersonaState(players[j]) > 0
    THEN IF players[j].steamid = None
         THEN [exc |-> KeyError("steamid"), friends |-> all_online_friends]
         ELSE AppendOnline(players, j + 1,
                           Append(all_online_friends, FriendInfo(players[j])))
    ELSE AppendOnline(players, j + 1, all_online_friends)

\* client.py:211-225: the try block of one batch.
BatchTry(answer, all_online_friends) ==
    LET r == get_player_summaries(answer)
    IN  IF r.exc # None
        THEN [exc |-> r.exc, friends |-> all_online_friends]
        ELSE IF r.data.shape = "null"
        THEN [exc |-> NoneTypeError, friends |-> all_online_friends]
        ELSE IF r.data.shape \in {"no_outer", "no_inner"}
        THEN [exc |-> None, friends |-> all_online_friends]
        ELSE AppendOnline(r.data.players, 1, all_online_friends)

\* Variant of BatchExceptClauses: no except clause around a batch.
BatchExceptClauses_None == <<>>

\* client.py:227: the except clause around one batch.
BatchExceptClauses == <<"Exception">>

\* client.py:208  friend_steam_ids[i:i + batch_size]
BatchIds(friend_steam_ids, i) ==
    SubSeq(friend_steam_ids, i + 1,
           IF i + batch_size < Len(friend_steam_ids)
           THEN i + batch_size ELSE Len(friend_steam_ids))

\* Variant of NextBatchStart: a step one short of the batch size.
NextBatchStart_Overlapping(i) == i + batch_size - 1

\* client.py:207  range(0, len(friend_steam_ids), batch_size)
NextBatchStart(i) == i + batch_size

\* The answer to the m-th request of a call; a request the upstream has no
\* answer for fails.
AnswerAt(answers, m) ==
    IF m <= Len(answers) THEN answers[m] ELSE ClientError(ServerDisconnected)

\* client.py:207-229: the batches from offset i on.  An exception the except
\* clause does not catch ends the loop and propagates.
RECURSIVE BatchLoop(_, _, _, _, _)
BatchLoop(friend_steam_ids, i, answers, all_online_friends, requests) ==
    IF i >= Len(friend_steam_ids)
    THEN [exc |-> None, friends |-> all_online_friends, requests |-> requests]
    ELSE LET batch_ids == BatchIds(friend_steam_ids, i)
             sent == Append(requests, Request("GetPlayerSummaries", batch_ids))
             t == BatchTry(AnswerAt(answers, Len(sent)), all_online_friends)
         IN  IF t.exc # None /\ Handler(BatchExceptClauses, t.exc[1].cls) = "uncaught"
             THEN [exc |-> t.exc, friends |-> t.friends, requests |-> sent]
             ELSE BatchLoop(friend_steam_ids, NextBatchStart(i), answers,
                            t.friends, sent)

\* The outcome of the try block of get_online_friends.
\* stored tells whether it assigned STEAM_DATA_CACHE["friends_data"].
FriendsOutcome(exc, ret, cache, requests) ==
    [exc |-> exc, ret |-> ret, cache |-> cache, requests |-> requests,
     stored |-> FALSE]

\* A variant that assigns a fresh dict holding the friends entry alone.
StoreFriends_WholeCache(result, cache, requests) ==
    [exc |-> None, ret |-> result,
     cache |-> [currently_playing |-> None, friends_data |-> Some(result),
                last_update |-> cache.last_update],
     requests |-> requests, stored |-> TRUE]

\* client.py:200-202 and 231-233
StoreFriends(result, cache, requests) ==
    [exc |-> None, ret |-> result,
     cache |-> [cache EXCEPT !.friends_data = Some(result)],
     requests |-> requests, stored |-> TRUE]

\* client.py:187-233, the try block.
FriendsTry(cache, answers) ==
    LET sent == <<Request("GetFriendList", OwnIds)>>
        r == get_friend_list(AnswerAt(answers, 1))
        data == r.data
    IN  IF r.exc # None
        THEN FriendsOutcome(r.exc, <<>>, cache, sent)
        ELSE IF data.shape = "null"
        THEN FriendsOutcome(NoneTypeError, <<>>, cache, sent)
        ELSE IF data.shape \in {"no_outer", "no_inner"}
        THEN FriendsOutcome(None, CachedOrNoFriends(cache), cache, sent)
        ELSE IF \E i \in 1..Len(data.friends) : data.friends[i].steamid = None
        THEN FriendsOutcome(KeyError("steamid"), <<>>, cache, sent)
        ELSE IF FriendSteamIds(data.friends) = <<>>
        THEN StoreFriends(<<>>, cache, sent)
        ELSE LET l == BatchLoop(FriendSteamIds(data.friends), 0, answers, <<>>, sent)
             IN  IF l.exc # None
                 THEN FriendsOutcome(l.exc, <<>>, cache, l.requests)
                 ELSE StoreFriends(l.friends, cache, l.requests)

\* client.py:235 and 242: the except clauses of get_online_friends.
FriendsExceptClauses == <<"SteamAPIError", "Exception">>

\* client.py:236-241: the SteamAPIError handler.
FriendsOnApiError(msg, cache) ==
    IF IsTemporarilyUnavailable(msg) /\ FriendsCached(cache)
    THEN cache.friends_data[1]
    ELSE <<>>

\* client.py:184-244
get_online_friends(cache, answers) ==
    LET t == FriendsTry(cache, answers)
        h == IF t.exc = None THEN "none"
             ELSE Handler(FriendsExceptClauses, t.exc[1].cls)
    IN  [raised |-> h = "uncaught",
         ret |-> IF h = "none" THEN t.ret
                 ELSE IF h = "SteamAPIError"
                 THEN FriendsOnApiError(t.exc[1].msg, cache)
                 ELSE <<>>,
         cache |-> t.cache,
         stored |-> t.stored,
         requests |-> t.requests]

\* ---------------------------------------------------------------- entities

Attributes(state, title, artist, album, image) ==
    [state |-> state, media_title |-> title, media_artist |-> artist,
     media_album |-> album, media_image_url |-> image]

\* media_player.py:42-48
PlayingInitialAttributes ==
    Attributes("ON", "Steam - Now Playing", "No game detected", "Steam", Some(""))

\* media_player.py:65-99.  game_info is None for the empty dict.
update_game_info(game_info) ==
    IF game_info # None
    THEN Attributes("PLAYING", "Steam - Now Playing", game_info[1].name,
                    "Playing on Steam", game_info[1].image_url)
    ELSE Attributes("OFF", "Steam - Now Playing", "No game detected", "Steam",
                    Some(""))

\* media_player.py:113
steam_logo_url == "https://store.steampowered.com/favicon.ico"

\* media_player.py:115-121
FriendsInitialAttributes ==
    Attributes("ON", "Steam - Friends", "Loading...", "Fetching friends...",
               Some(steam_logo_url))

\* media_player.py:138-177.  friends_info is None for an empty dict.
update_friends_info(friends_info) ==
    IF friends_info # None
    THEN Attributes("PLAYING", "Steam - Friends",
                    ToString(friends_info[1].online_count) \o " friends online",
                    "Total: " \o ToString(friends_info[1].total_count),
                    Some(steam_logo_url))
    ELSE Attributes("OFF", "Steam - Friends", "No friends data", "Steam",
                    Some(steam_logo_url))

\* driver.py:130-137
GameInfo(ret) ==
    IF ret.game # None
    THEN Some([name |-> ret.game[1].name, image_url |-> ret.image,
               appid |-> ret.game[1].appid])
    ELSE None

\* driver.py:144-148
FriendsInfo(online_friends) ==
    Some([online_count |-> Len(online_friends),
          total_count |-> Len(online_friends),
          friends |-> online_friends])

\* ------------------------------------------------------------------- state

VARIABLES
    STEAM_DATA_CACHE,      \* client.py:18-22, shared by every client
    STEAM_ARTWORK_CACHE,   \* client.py:17, game name -> image URL
    STEAM_CLIENT,          \* driver.py:22, the client polled: 0 (None) or its number
    session,               \* SteamClient.session of every client constructed
    playing_attributes,    \* attributes of the currently-playing entity
    friends_attributes,    \* attributes of the friends entity
    last,                  \* the most recent call into the client, as observed
    cached_result,         \* per view, what the latest call that stored returned
    cached_by,             \* per view, the account of the client that stored
    steam_id,              \* SteamClient.steam_id of every client constructed
    CONFIG,                \* driver.py:21, the configuration in memory
    CURRENTLY_PLAYING_ENTITY,  \* driver.py:23, whether the entity is created
    FRIENDS_ENTITY,        \* driver.py:24, whether the entity is created
    configured_entities,   \* API.configured_entities, the entities subscribed
    UPDATE_TASK,           \* driver.py:25: "none" or "running"
    device_state,          \* the state last given to API.set_device_state
    setup_task,            \* the setup request being handled
    setup_result,          \* what the last setup request was answered
    connect_task,          \* connect_and_start_client being run
    loop_task,             \* the update loop
    process,               \* "running", or "exited" after the finally clause
    command,               \* the entity command handled last and its status
    verified               \* the clients whose request at driver.py:49 succeeded

\* The state of the driver around the client.
driver_vars == <<STEAM_CLIENT, steam_id, CONFIG, CURRENTLY_PLAYING_ENTITY,
                 FRIENDS_ENTITY, configured_entities, UPDATE_TASK, device_state,
                 setup_task, setup_result, connect_task, loop_task, process,
                 command, verified>>

vars == <<STEAM_DATA_CACHE, STEAM_ARTWORK_CACHE, session, playing_attributes,
          friends_attributes, last, cached_result, cached_by, driver_vars>>

EmptyDataCache ==
    [currently_playing |-> None, friends_data |-> None, last_update |-> 0]

\* What an observer records of one call: the operation, the account of the
\* client called, the upstream's
\* answers to its requests in order, the requests, whether it raised, what
\* it returned, whether it stored into the data cache, the data cache as the
\* call found it, and whether the call repeats the recorded call before it.
Call(op, by, answers, requests, raised, playing, friends, stored, before, again) ==
    [op |-> op, by |-> by, answers |-> answers, requests |-> requests, raised |-> raised,
     playing |-> playing, friends |-> friends, stored |-> stored,
     before |-> before, again |-> again]

NoCall == Call("none", "", <<>>, <<>>, FALSE, NotPlaying, <<>>, FALSE, EmptyDataCache, FALSE)

\* Two Steam accounts and an API key.
AccountA == "76561197960287930"
AccountB == "76561197960435530"
ApiKey == "0123456789ABCDEF0123456789ABCDEF"

\* config.py:19-23
Config(steam_api_key, account) ==
    [steam_api_key |-> steam_api_key, steam_id |-> account]

\* The three tasks when they are not running.
\* An entity command as handled, NoCommand before the first.
Handled(entity_id, cmd_id, status) ==
    [entity_id |-> entity_id, cmd_id |-> cmd_id, status |-> status]
NoCommand == Handled("", "", "")

NoSetup == [pc |-> "idle", steam_api_key |-> "", steam_id |-> ""]
ConnectAt(pc, client, in_flight) ==
    [pc |-> pc, client |-> client, in_flight |-> in_flight]
NoConnect == ConnectAt("idle", 0, FALSE)
LoopAt(pc, client, in_flight) ==
    [pc |-> pc, client |-> client, in_flight |-> in_flight]
NoLoop == LoopAt("none", 0, FALSE)
Sleeping == LoopAt("sleep", 0, FALSE)

\* client.py:17-22 and the two entities as constructed.
InitClient ==
    /\ STEAM_DATA_CACHE = EmptyDataCache
    /\ STEAM_ARTWORK_CACHE = [n \in {} |-> ""]
    /\ playing_attributes = PlayingInitialAttributes
    /\ friends_attributes = FriendsInitialAttributes
    /\ last = NoCall
    /\ cached_result = [playing |-> None, friends |-> None]
    /\ cached_by = [playing |-> "", friends |-> ""]

\* The driver set up for account A: a client constructed, both entities
\* created and subscribed, the update loop between two cycles.
Init ==
    /\ InitClient
    /\ STEAM_CLIENT = 1
    /\ steam_id = <<AccountA>>
    /\ session = <<NoSession>>
    /\ CONFIG = Config(ApiKey, AccountA)
    /\ CURRENTLY_PLAYING_ENTITY = TRUE
    /\ FRIENDS_ENTITY = TRUE
    /\ configured_entities = {"steam_currently_playing", "steam_friends"}
    /\ UPDATE_TASK = "running"
    /\ device_state = "CONNECTED"
    /\ setup_task = NoSetup
    /\ setup_result = "none"
    /\ connect_task = NoConnect
    /\ loop_task = Sleeping
    /\ process = "running"
    /\ command = NoCommand
    /\ verified = {1}

\* driver.py:128-139: get_currently_playing of the client self returns and
\* the entity is updated; an exception from either is caught at
\* driver.py:155.
PlayingCall(self, answer) ==
    \E r \in {get_currently_playing(STEAM_DATA_CACHE, STEAM_ARTWORK_CACHE, answer)} :
        /\ STEAM_DATA_CACHE' = r.cache
        /\ STEAM_ARTWORK_CACHE' = r.artwork
        /\ session' = [session EXCEPT ![self] = connect(@)]
        /\ playing_attributes' =
               IF r.raised THEN playing_attributes
               ELSE update_game_info(GameInfo(r.ret))
        /\ last' = Call("playing", steam_id[self], <<answer>>, r.requests, r.raised, r.ret, <<>>,
                        r.stored, STEAM_DATA_CACHE, last.op = "playing")
        /\ cached_result' =
               IF r.stored THEN [cached_result EXCEPT !.playing = Some(r.ret)]
               ELSE cached_result
        /\ cached_by' =
               IF r.stored THEN [cached_by EXCEPT !.playing = steam_id[self]]
               ELSE cached_by
        /\ UNCHANGED friends_attributes

\* driver.py:127-139: the update loop polls the playing view with the
\* client in STEAM_CLIENT.
PollPlaying(answer) ==
    PlayingCall(STEAM_CLIENT, answer) /\ UNCHANGED driver_vars

\* driver.py:142-150: get_online_friends of the client self returns and the
\* entity is updated.  The upstream holds an answer for every request the
\* call makes.
FriendsCall(self, answers) ==
    \E r \in {get_online_friends(STEAM_DATA_CACHE, answers)} :
        /\ Len(r.requests) <= Len(answers)
        /\ STEAM_DATA_CACHE' = r.cache
        /\ session' = [session EXCEPT ![self] = connect(@)]
        /\ friends_attributes' =
               IF r.raised THEN friends_attributes
               ELSE update_friends_info(FriendsInfo(r.ret))
        /\ last' = Call("friends", steam_id[self], answers, r.requests, r.raised,
                        NotPlaying,
                        r.ret, r.stored, STEAM_DATA_CACHE, last.op = "friends")
        /\ cached_result' =
               IF r.stored THEN [cached_result EXCEPT !.friends = Some(r.ret)]
               ELSE cached_result
        /\ cached_by' =
               IF r.stored THEN [cached_by EXCEPT !.friends = steam_id[self]]
               ELSE cached_by
        /\ UNCHANGED <<STEAM_ARTWORK_CACHE, playing_attributes>>

\* driver.py:141-150: the update loop polls the friends view with the
\* client in STEAM_CLIENT.
PollFriends(answers) ==
    FriendsCall(STEAM_CLIENT, answers) /\ UNCHANGED driver_vars

\* The record `last` is an observation of the program, not a part of it.  A
\* poll is observed once the record of the call before is dropped (Forget);
\* a poll that follows a recorded call at once is the same operation against
\* an upstream that answers as before.
PollPlayingAgain == last.op = "playing" /\ PollPlaying(last.answers[1])

PollFriendsAgain == last.op = "friends" /\ PollFriends(last.answers)

\* The observer drops its record; the program does nothing.
Forget ==
    /\ last.op # "none"
    /\ last' = NoCall
    /\ UNCHANGED <<STEAM_DATA_CACHE, STEAM_ARTWORK_CACHE, session,
                   playing_attributes, friends_attributes, cached_result,
                   cached_by, driver_vars>>

\* ------------------------------------------------------ upstream behaviours

SummaryBody(players) == Body("ok", players, <<>>)
FriendListBody(friends) == Body("ok", <<>>, friends)

BrokenBodies == {Body(sh, <<>>, <<>>) : sh \in Shapes \ {"ok"}}

\* Answers to the summary request for the configured account.
OwnSummaryAnswers ==
    Failures
        \cup {Response(200, b) : b \in BrokenBodies}
        \cup {Response(200, SummaryBody(<<>>))}
        \cup {Response(200, SummaryBody(<<p>>)) : p \in OwnPlayers}

\* A friend list of n friends with the account ids 1..n.
FriendsUpTo(n) == [i \in 1..n |-> [steamid |-> Some(i)]]

\* Answers to the friend-list request after which no batch is requested.
FriendListAnswers ==
    Failures
        \cup {Response(200, b) : b \in BrokenBodies}
        \cup {Response(200, FriendListBody(<<>>))}
        \cup {Response(200, FriendListBody(<<[steamid |-> None]>>))}

\* Player lists of at most n entries.
PlayerLists(n) == UNION {[1..k -> FriendPlayers] : k \in 0..n}

\* Answers to the summary request for one batch of a list of n friends: the
\* upstream returns at most one player for each id asked.
BatchAnswers(n) ==
    Failures
        \cup {Response(200, b) : b \in BrokenBodies}
        \cup {Response(200, SummaryBody(ps)) :
                ps \in PlayerLists(IF n < MaxPlayers THEN n ELSE MaxPlayers)}

\* The number of batches of at most batch_size ids a list of n ids splits in.
Batches(n) == (n + batch_size - 1) \div batch_size

\* What the upstream answers to one call of get_online_friends: the answer to
\* the friend-list request and, when that lists n friends, an answer for each
\* batch.
FriendsAnswerSeqs ==
    {<<fl>> : fl \in FriendListAnswers}
        \cup UNION {
               {<<Response(200, FriendListBody(FriendsUpTo(n)))>> \o bs :
                    bs \in [1..Batches(n) -> BatchAnswers(n)]} : n \in 1..MaxFriends}

\* A poll of the playing view, whatever the upstream answers.
PollPlayingNew ==
    last.op = "none" /\ \E answer \in OwnSummaryAnswers : PollPlaying(answer)

\* A poll of the friends view, whatever the upstream answers.
PollFriendsNew ==
    last.op = "none" /\ \E answers \in FriendsAnswerSeqs : PollFriends(answers)

Next ==
    \/ PollPlayingNew
    \/ PollFriendsNew
    \/ PollPlayingAgain
    \/ PollFriendsAgain
    \/ Forget

Spec == Init /\ [][Next]_vars

\* --------------------------------------------------------- long friend lists

\* What the upstream answers to the j-th batch under SpecBatch: one friend
\* online, a transient failure, a network failure, or a null payload.
BatchChoices(j) ==
    { Response(200, SummaryBody(<<Player(Some(j), Some("Friend"), Some(1), None, None)>>)),
      Response(503, NoBody),
      ClientError(ServerDisconnected),
      Response(200, NoBody) }

BatchChoiceSeqs(k) ==
    {bs \in [1..k -> UNION {BatchChoices(j) : j \in 1..k}] :
        \A j \in 1..k : bs[j] \in BatchChoices(j)}

LongFriendsAnswerSeqs ==
    UNION { {<<Response(200, FriendListBody(FriendsUpTo(n)))>> \o bs :
                bs \in BatchChoiceSeqs(Batches(n))} : n \in 0..MaxBatchFriends }

\* A poll of the friends view of an account with a long friend list.
PollFriendsLong ==
    last.op = "none" /\ \E answers \in LongFriendsAnswerSeqs : PollFriends(answers)

NextBatch ==
    \/ PollFriendsLong
    \/ PollFriendsAgain
    \/ Forget

\* The friends view polled with friend lists of up to MaxBatchFriends ids.
SpecBatch == Init /\ [][NextBatch]_vars

\* ------------------------------------------------------ two full responses

\* The friends the upstream reports with an account id: two online, one
\* offline.
KnownPlayers == {p \in FriendPlayers : p.steamid # None}

\* What the upstream answers to a call for a friend list one id longer than
\* a batch: the list, players for the first batch, and for the second batch
\* one player, a payload without players, or a failure.
TwoBatchAnswerSeqs ==
    {<<Response(200, FriendListBody(FriendsUpTo(batch_size + 1))),
       Response(200, SummaryBody(ps)), second>> :
        ps \in UNION {[1..k -> KnownPlayers] : k \in 0..MaxPlayers},
        second \in {Response(200, SummaryBody(<<p>>)) : p \in KnownPlayers}
                      \cup {Response(200, Body("no_inner", <<>>, <<>>)),
                            Response(503, NoBody)}}

\* A poll of the friends view of an account with batch_size + 1 friends.
PollFriendsTwoBatches ==
    last.op = "none" /\ \E answers \in TwoBatchAnswerSeqs : PollFriends(answers)

NextOrder ==
    \/ PollFriendsTwoBatches
    \/ PollFriendsAgain
    \/ Forget

\* The friends view polled for a friend list of two batches.
SpecOrder == Init /\ [][NextOrder]_vars

\* ------------------------------------------------------------ the session

\* client.py:50-55, called at driver.py:47.
ClientConnect ==
    /\ session' = [session EXCEPT ![STEAM_CLIENT] = connect(@)]
    /\ UNCHANGED <<STEAM_DATA_CACHE, STEAM_ARTWORK_CACHE, playing_attributes,
                   friends_attributes, last, cached_result, cached_by,
                   driver_vars>>

\* client.py:57-62, called at driver.py:189-190.
ClientDisconnect ==
    /\ session' = [session EXCEPT ![STEAM_CLIENT] = disconnect(@)]
    /\ UNCHANGED <<STEAM_DATA_CACHE, STEAM_ARTWORK_CACHE, playing_attributes,
                   friends_attributes, last, cached_result, cached_by,
                   driver_vars>>

\* A poll of the friends view of an account with MaxFriends friends.
PollFriendsSession ==
    /\ last.op = "none"
    /\ \E batch \in {Response(200, SummaryBody(<<>>)), Response(503, NoBody)} :
           PollFriends(<<Response(200, FriendListBody(FriendsUpTo(MaxFriends))), batch>>)

NextSession ==
    \/ ClientConnect
    \/ ClientDisconnect
    \/ PollPlayingNew
    \/ PollFriendsSession
    \/ Forget

\* One client under any sequence of connect, disconnect and polls.
SpecSession == Init /\ [][NextSession]_vars

\* ------------------------------------------------------------- the driver
\* The process from its start: the setup handler, connect_and_start_client
\* and the update loop as tasks of one event loop.  A task runs from one
\* await that suspends it to the next; the awaits that suspend are the
\* rate limiter of a client, an HTTP request and the sleep of the loop.

\* The number of clients the process constructs.
MaxClients == 2

SetupKeys == {"", ApiKey}
SetupIds == {"", "not a number", AccountA, AccountB}

\* setup.py:59-65: int(steam_id) succeeds and is positive.
IsSteamId(text) == text \in {AccountA, AccountB}

\* setup.py:98-124
test_steam_api_connection(answer) ==
    /\ answer.kind = "response"
    /\ answer.status = 200
    /\ answer.body.shape = "ok"
    /\ answer.body.players # <<>>

\* driver.py:50: `not user_data or "response" not in user_data`
NoUserData(body) == body.shape \in {"null", "no_outer"}

\* What the upstream answers in these runs.
InGame == Player(Some(0), Some("me"), Some(1), Some("10"), Some("Portal"))
Ann == Player(Some(1), Some("Ann"), Some(1), Some("10"), Some("Portal"))
DriverSummaryAnswers ==
    { Response(200, SummaryBody(<<InGame>>)),
      Response(200, SummaryBody(<<>>)),
      Response(200, Body("no_outer", <<>>, <<>>)),
      Response(503, NoBody),
      OtherException(TimedOut) }
DriverFriendsAnswers ==
    { <<Response(200, FriendListBody(<<>>))>>,
      <<Response(200, FriendListBody(FriendsUpTo(1))),
        Response(200, SummaryBody(<<Ann>>))>>,
      <<Response(503, NoBody)>> }

\* driver.py:162-180 up to its first await that suspends: the configuration
\* file held nothing, or a complete configuration for which
\* connect_and_start_client has constructed the client (driver.py:42-47).
InitDriver ==
    /\ InitClient
    /\ CURRENTLY_PLAYING_ENTITY = FALSE
    /\ FRIENDS_ENTITY = FALSE
    /\ configured_entities = {}
    /\ UPDATE_TASK = "none"
    /\ setup_task = NoSetup
    /\ setup_result = "none"
    /\ loop_task = NoLoop
    /\ process = "running"
    /\ command = NoCommand
    /\ verified = {}
    /\ \/ /\ CONFIG = Config("", "")
          /\ STEAM_CLIENT = 0
          /\ steam_id = <<>>
          /\ session = <<>>
          /\ device_state = "DISCONNECTED"
          /\ connect_task = NoConnect
       \/ /\ CONFIG = Config(ApiKey, AccountA)
          /\ STEAM_CLIENT = 1
          /\ steam_id = <<AccountA>>
          /\ session = <<connect(NoSession)>>
          /\ device_state = "none"
          /\ connect_task = ConnectAt("summaries", 1, FALSE)

\* driver.py:184-185: the event loop runs.
Running == process = "running"

client_vars == <<STEAM_DATA_CACHE, STEAM_ARTWORK_CACHE, playing_attributes,
                 friends_attributes, last, cached_result, cached_by>>

\* setup.py:44-69: a setup request arrives while no other is handled and no
\* connection is being made.  Data that fail the validation are answered at
\* once; for the others the credential test sends its request.
SetupRequest(steam_api_key, account) ==
    /\ Running
    /\ setup_task.pc = "idle"
    /\ connect_task.pc = "idle"
    /\ Len(steam_id) < MaxClients
    /\ IF steam_api_key = "" \/ account = "" \/ ~IsSteamId(account)
       THEN /\ setup_result' = "SetupError OTHER"
            /\ UNCHANGED setup_task
       ELSE /\ setup_task' = [pc |-> "testing", steam_api_key |-> steam_api_key,
                              steam_id |-> account]
            /\ setup_result' = "none"
    /\ UNCHANGED <<process, command, verified,
                   client_vars, session, STEAM_CLIENT, steam_id, CONFIG,
                   CURRENTLY_PLAYING_ENTITY, FRIENDS_ENTITY, configured_entities,
                   UPDATE_TASK, device_state, connect_task, loop_task>>

\* setup.py:67-81 and driver.py:27-47: the credential test is answered.  When
\* it passed, the configuration is set and saved and
\* connect_and_start_client constructs the client for it, which becomes
\* STEAM_CLIENT, and opens its session.
SetupTested(answer, saved) ==
    /\ Running
    /\ setup_task.pc = "testing"
    /\ IF ~test_steam_api_connection(answer)
       THEN /\ setup_result' = "SetupError AUTHORIZATION_ERROR"
            /\ setup_task' = NoSetup
            /\ UNCHANGED <<CONFIG, STEAM_CLIENT, steam_id, session, connect_task>>
       ELSE /\ CONFIG' = Config(setup_task.steam_api_key, setup_task.steam_id)
            /\ IF ~saved
               THEN /\ setup_result' = "SetupError OTHER"
                    /\ setup_task' = NoSetup
                    /\ UNCHANGED <<STEAM_CLIENT, steam_id, session, connect_task>>
               ELSE /\ STEAM_CLIENT' = Len(steam_id) + 1
                    /\ steam_id' = Append(steam_id, setup_task.steam_id)
                    /\ session' = Append(session, connect(NoSession))
                    /\ connect_task' = ConnectAt("summaries", Len(steam_id) + 1, FALSE)
                    /\ setup_task' = [setup_task EXCEPT !.pc = "connecting"]
                    /\ UNCHANGED setup_result
    /\ UNCHANGED <<process, command, verified,
                   client_vars, CURRENTLY_PLAYING_ENTITY, FRIENDS_ENTITY,
                   configured_entities, UPDATE_TASK, device_state, loop_task>>

\* client.py:72: the rate limiter of the client admits the request of
\* connect_and_start_client (driver.py:49), which is sent.
ConnectAdmitted ==
    /\ Running
    /\ connect_task.pc = "summaries"
    /\ ~connect_task.in_flight
    /\ connect_task' = [connect_task EXCEPT !.in_flight = TRUE]
    /\ UNCHANGED <<process, command, verified,
                   client_vars, session, STEAM_CLIENT, steam_id, CONFIG,
                   CURRENTLY_PLAYING_ENTITY, FRIENDS_ENTITY, configured_entities,
                   UPDATE_TASK, device_state, setup_task, setup_result, loop_task>>

\* driver.py:49-77: the request is answered; setup.py:77-78 when the setup
\* handler awaited it.
ConnectAnswered(answer) ==
    /\ Running
    /\ connect_task.pc = "summaries"
    /\ connect_task.in_flight
    /\ \E r \in {get_player_summaries(answer)} :
          IF r.exc # None \/ NoUserData(r.data)
          THEN /\ device_state' = "ERROR"
               /\ UNCHANGED <<CURRENTLY_PLAYING_ENTITY, FRIENDS_ENTITY, verified>>
          ELSE /\ CURRENTLY_PLAYING_ENTITY' = TRUE
               /\ FRIENDS_ENTITY' = TRUE
               /\ device_state' = "CONNECTED"
               /\ verified' = verified \cup {connect_task.client}
    /\ connect_task' = NoConnect
    /\ IF setup_task.pc = "connecting"
       THEN setup_task' = NoSetup /\ setup_result' = "SetupComplete"
       ELSE UNCHANGED <<setup_task, setup_result>>
    /\ UNCHANGED <<process, command, client_vars, session, STEAM_CLIENT, steam_id, CONFIG,
                   configured_entities, UPDATE_TASK, loop_task>>

\* driver.py:79-84
on_connect ==
    /\ Running
    /\ device_state' =
           IF STEAM_CLIENT # 0 /\ CURRENTLY_PLAYING_ENTITY /\ FRIENDS_ENTITY
           THEN "CONNECTED" ELSE device_state
    /\ UNCHANGED <<process, command, verified,
                   client_vars, session, STEAM_CLIENT, steam_id, CONFIG,
                   CURRENTLY_PLAYING_ENTITY, FRIENDS_ENTITY, configured_entities,
                   UPDATE_TASK, setup_task, setup_result, connect_task, loop_task>>

EntityIds == {"steam_currently_playing", "steam_friends"}

\* The entities created.
Created ==
    (IF CURRENTLY_PLAYING_ENTITY THEN {"steam_currently_playing"} ELSE {})
        \cup (IF FRIENDS_ENTITY THEN {"steam_friends"} ELSE {})

\* driver.py:91-118
on_subscribe_entities(entity_ids) ==
    /\ Running
    /\ configured_entities' = configured_entities \cup (entity_ids \cap Created)
    /\ IF entity_ids \cap Created # {} /\ UPDATE_TASK = "none"
       THEN UPDATE_TASK' = "running" /\ loop_task' = Sleeping
       ELSE UNCHANGED <<UPDATE_TASK, loop_task>>
    /\ UNCHANGED <<process, command, verified,
                   client_vars, session, STEAM_CLIENT, steam_id, CONFIG,
                   CURRENTLY_PLAYING_ENTITY, FRIENDS_ENTITY, device_state,
                   setup_task, setup_result, connect_task>>

\* A variant that polls the friends view of every cycle.
ToFriends_Unchecked == LoopAt("friends", STEAM_CLIENT, FALSE)

\* driver.py:141-142: the loop comes to the friends view.
ToFriends ==
    IF FRIENDS_ENTITY /\ "steam_friends" \in configured_entities
    THEN LoopAt("friends", STEAM_CLIENT, FALSE)
    ELSE Sleeping

\* driver.py:122-128 and 158: the sleep of the update loop ends and the next
\* cycle comes to its first call into STEAM_CLIENT.
LoopWakes ==
    /\ Running
    /\ loop_task.pc = "sleep"
    /\ loop_task' =
           IF STEAM_CLIENT # 0 /\ (CURRENTLY_PLAYING_ENTITY \/ FRIENDS_ENTITY)
           THEN IF /\ CURRENTLY_PLAYING_ENTITY
                   /\ "steam_currently_playing" \in configured_entities
                THEN LoopAt("playing", STEAM_CLIENT, FALSE)
                ELSE ToFriends
           ELSE Sleeping
    /\ UNCHANGED <<process, command, verified,
                   client_vars, session, STEAM_CLIENT, steam_id, CONFIG,
                   CURRENTLY_PLAYING_ENTITY, FRIENDS_ENTITY, configured_entities,
                   UPDATE_TASK, device_state, setup_task, setup_result,
                   connect_task>>

\* client.py:72: the rate limiter of the client admits the first request of
\* the call the loop is in.
LoopAdmitted ==
    /\ Running
    /\ loop_task.pc \in {"playing", "friends"}
    /\ ~loop_task.in_flight
    /\ loop_task' = [loop_task EXCEPT !.in_flight = TRUE]
    /\ UNCHANGED <<process, command, verified,
                   client_vars, session, STEAM_CLIENT, steam_id, CONFIG,
                   CURRENTLY_PLAYING_ENTITY, FRIENDS_ENTITY, configured_entities,
                   UPDATE_TASK, device_state, setup_task, setup_result,
                   connect_task>>

\* A variant in which the exception ends the task.
AfterException_Propagates == NoLoop

\* driver.py:155-158: an exception raised in the cycle is caught and logged
\* and the loop sleeps.
AfterException == Sleeping

\* driver.py:128-142 and 155-158: get_currently_playing returns or raises,
\* and the entity update, which hands the attributes to the integration API
\* outside its try block (media_player.py:99-102), returns or raises.
LoopPlayingReturns(answer, update_raises) ==
    /\ Running
    /\ loop_task.pc = "playing"
    /\ loop_task.in_flight
    /\ PlayingCall(loop_task.client, answer)
    /\ loop_task' =
           IF last'.raised \/ update_raises THEN AfterException ELSE ToFriends
    /\ UNCHANGED <<process, command, verified,
                   STEAM_CLIENT, steam_id, CONFIG, CURRENTLY_PLAYING_ENTITY,
                   FRIENDS_ENTITY, configured_entities, UPDATE_TASK,
                   device_state, setup_task, setup_result, connect_task>>

\* driver.py:142-158: get_online_friends returns or raises.
LoopFriendsReturns(answers) ==
    /\ Running
    /\ loop_task.pc = "friends"
    /\ loop_task.in_flight
    /\ FriendsCall(loop_task.client, answers)
    /\ loop_task' = Sleeping
    /\ UNCHANGED <<process, command, verified,
                   STEAM_CLIENT, steam_id, CONFIG, CURRENTLY_PLAYING_ENTITY,
                   FRIENDS_ENTITY, configured_entities, UPDATE_TASK,
                   device_state, setup_task, setup_result, connect_task>>

\* The commands the remote sends: the three the handler names and one other.
Commands == {"on", "off", "play_pause", "volume_up"}

\* media_player.py:61-63, 134-136: trigger_update writes a log line.
trigger_update(entity_id) == TRUE

\* media_player.py:24-32: the status steam_command_handler returns.
CommandStatus(cmd_id) ==
    IF cmd_id = "on" THEN "OK"
    ELSE IF cmd_id \in {"off", "play_pause"} THEN "OK"
    ELSE "NOT_IMPLEMENTED"

\* media_player.py:20-32: the remote sends a command to an entity that was
\* created.
steam_command_handler(entity_id, cmd_id) ==
    /\ Running
    /\ entity_id \in Created
    /\ cmd_id = "on" => trigger_update(entity_id)
    /\ command' = Handled(entity_id, cmd_id, CommandStatus(cmd_id))
    /\ UNCHANGED <<verified, process, client_vars, session, STEAM_CLIENT, steam_id,
                   CONFIG, CURRENTLY_PLAYING_ENTITY, FRIENDS_ENTITY,
                   configured_entities, UPDATE_TASK, device_state, setup_task,
                   setup_result, connect_task, loop_task>>

\* driver.py:186-191: the driver is interrupted; the finally clause
\* disconnects the client in STEAM_CLIENT and closes the event loop, which
\* ends every task.
Shutdown ==
    /\ Running
    /\ process' = "exited"
    /\ session' =
           IF STEAM_CLIENT # 0
           THEN [session EXCEPT ![STEAM_CLIENT] = disconnect(@)]
           ELSE session
    /\ UNCHANGED <<verified, command, client_vars, STEAM_CLIENT, steam_id, CONFIG,
                   CURRENTLY_PLAYING_ENTITY, FRIENDS_ENTITY, configured_entities,
                   UPDATE_TASK, device_state, setup_task, setup_result,
                   connect_task, loop_task>>

NextDriver ==
    \/ \E k \in SetupKeys, a \in SetupIds : SetupRequest(k, a)
    \/ \E answer \in DriverSummaryAnswers, saved \in BOOLEAN :
           SetupTested(answer, saved)
    \/ ConnectAdmitted
    \/ \E answer \in DriverSummaryAnswers : ConnectAnswered(answer)
    \/ on_connect
    \/ \E entity_ids \in SUBSET EntityIds : on_subscribe_entities(entity_ids)
    \/ LoopWakes
    \/ LoopAdmitted
    \/ \E answer \in DriverSummaryAnswers, update_raises \in BOOLEAN :
           LoopPlayingReturns(answer, update_raises)
    \/ \E answers \in DriverFriendsAnswers : LoopFriendsReturns(answers)
    \/ Shutdown

SpecDriver == InitDriver /\ [][NextDriver]_vars

\* The remote sends commands to the entities of the driver that is set up
\* while the update loop runs.
NextCommand ==
    \/ \E entity_id \in EntityIds, cmd_id \in Commands :
           steam_command_handler(entity_id, cmd_id)
    \/ LoopWakes
    \/ LoopAdmitted
    \/ \E answer \in DriverSummaryAnswers, update_raises \in BOOLEAN :
           LoopPlayingReturns(answer, update_raises)
    \/ \E answers \in DriverFriendsAnswers : LoopFriendsReturns(answers)

SpecCommand == Init /\ [][NextCommand]_vars

\* The update loop of the driver that is set up.  The sleep ends
\* (driver.py:158), the rate limiter admits (client.py:72) and a request is
\* answered or times out (client.py:53).
PlayingReturnsSome ==
    \E answer \in DriverSummaryAnswers, update_raises \in BOOLEAN :
        LoopPlayingReturns(answer, update_raises)
FriendsReturnsSome ==
    \E answers \in DriverFriendsAnswers : LoopFriendsReturns(answers)

NextLoop ==
    \/ LoopWakes
    \/ LoopAdmitted
    \/ PlayingReturnsSome
    \/ FriendsReturnsSome

SpecLoop ==
    /\ Init
    /\ [][NextLoop]_vars
    /\ WF_vars(LoopWakes)
    /\ WF_vars(LoopAdmitted)
    /\ WF_vars(PlayingReturnsSome)
    /\ WF_vars(FriendsReturnsSome)

\* ------------------------------------------------------------------ claims

\* The request failed with HTTP 502, 503 or 504.
Transient(answer) ==
    answer.kind = "response" /\ answer.status \in {502, 503, 504}

\* The request was answered with HTTP 200 and a payload that decodes.
Ok(answer) == answer.kind = "response" /\ answer.status = 200

\* The answer to the request whose failure reaches the call's handlers: the
\* summary request for the configured account, the friend-list request.
Primary == last.answers[1]

\* C1: when the primary request of a poll fails with HTTP 502, 503 or 504
\* and an earlier call of the same operation stored its result in the view's
\* cache, the poll returns exactly what the latest such call returned.
C1_TransientReturnsCached ==
    /\ (last.op = "playing" /\ Transient(Primary)
            /\ last.before.currently_playing # None)
        => /\ ~last.raised
           /\ cached_result.playing # None
           /\ last.playing = cached_result.playing[1]
           /\ last.playing = last.before.currently_playing[1]
    /\ (last.op = "friends" /\ Transient(Primary)
            /\ last.before.friends_data # None)
        => /\ ~last.raised
           /\ cached_result.friends # None
           /\ last.friends = cached_result.friends[1]
           /\ last.friends = last.before.friends_data[1]

\* C1 witness: a poll stored game X, the next poll failed with 503 and
\* returned game X.
C1_Witness ==
    /\ last.op = "playing" /\ Primary = Response(503, NoBody)
    /\ cached_result.playing # None
    /\ cached_result.playing[1].game # None
    /\ last.playing = cached_result.playing[1]

\* C2: a poll in which any request failed leaves the data cache as it found
\* it.
C2_FailedPollLeavesCache ==
    (last.op # "none" /\ \E i \in 1..Len(last.answers) : ~Ok(last.answers[i]))
        => STEAM_DATA_CACHE = last.before

\* C2 witness: the friend list came with 200, the one batch failed with 503,
\* and the call stored a list into a cache that held another.
C2_Witness ==
    /\ last.op = "friends" /\ Len(last.answers) = 2
    /\ Ok(last.answers[1]) /\ last.answers[2] = Response(503, NoBody)
    /\ last.stored
    /\ STEAM_DATA_CACHE # last.before

\* C3: no call of get_currently_playing or get_online_friends raises to its
\* caller.
C3_NeverRaises == last.op # "none" => ~last.raised

\* C3 witness: the payload was null, the key test raised a TypeError, and
\* the call returned (None, None).
C3_Witness ==
    /\ last.op = "playing" /\ Primary = Response(200, NoBody)
    /\ ~last.raised /\ last.playing = NotPlaying

\* C4: a poll answered with HTTP 200 and an empty player list returns
\* (None, None) and does not raise, whatever the cache holds.
C4_EmptyPlayerListIsAbsent ==
    (last.op = "playing" /\ Primary = Response(200, Body("ok", <<>>, <<>>)))
        => (~last.raised /\ last.playing = NotPlaying)

\* C4 witness: 200 with an empty player list, and the call returned a game.
C4_Witness ==
    /\ last.op = "playing" /\ Primary = Response(200, Body("ok", <<>>, <<>>))
    /\ last.playing.game # None

\* C5: when the friend-list request is answered with HTTP 403 the call
\* returns the empty list, does not raise, and sends no summary request.
C5_PrivateProfileIsEmpty ==
    (last.op = "friends" /\ Primary = Response(403, NoBody))
        => /\ ~last.raised
           /\ last.friends = <<>>
           /\ \A i \in 1..Len(last.requests) :
                  last.requests[i].endpoint # "GetPlayerSummaries"

\* C5 witness: a 403 on the friend list while the cache held a friend.
C5_Witness ==
    /\ last.op = "friends" /\ Primary = Response(403, NoBody)
    /\ last.before.friends_data # None
    /\ last.before.friends_data[1] # <<>>
    /\ last.friends = <<>>

\* The friend-list request was answered with a list of account ids.
FriendListGiven ==
    /\ last.op = "friends" /\ Ok(Primary) /\ Primary.body.shape = "ok"
    /\ \A i \in 1..Len(Primary.body.friends) : Primary.body.friends[i].steamid # None

\* The ids of that list, in the order of the list.
GivenIds == [i \in 1..Len(Primary.body.friends) |-> Primary.body.friends[i].steamid[1]]

\* The summary requests of the call, in the order sent.
SummaryRequests == SubSeq(last.requests, 2, Len(last.requests))

\* C6: for a friend list of n ids the call sends the friend-list request and
\* then ceil(n/100) summary requests; the m-th carries the ids
\* 100(m-1)+1 .. min(100m, n) of the list in the list's order, so each
\* carries between 1 and 100 ids and every id is carried once.  With n = 0
\* it sends no summary request and returns the empty list.
C6_BatchesOfHundred ==
    FriendListGiven =>
        LET n == Len(GivenIds)
            k == Len(SummaryRequests)
        IN  /\ last.requests[1].endpoint = "GetFriendList"
            /\ k * 100 >= n
            /\ (k = 0 \/ (k - 1) * 100 < n)
            /\ \A m \in 1..k :
                   /\ SummaryRequests[m].endpoint = "GetPlayerSummaries"
                   /\ SummaryRequests[m].ids =
                          SubSeq(GivenIds, 100 * (m - 1) + 1,
                                 IF 100 * m < n THEN 100 * m ELSE n)
                   /\ Len(SummaryRequests[m].ids) \in 1..100
            /\ (n = 0 => ~last.raised /\ last.friends = <<>>)

\* C6 witness: 250 ids were asked for in three requests of 100, 100 and 50.
C6_Witness ==
    /\ FriendListGiven /\ Len(GivenIds) = 250
    /\ Len(SummaryRequests) = 3
    /\ Len(SummaryRequests[1].ids) = 100
    /\ Len(SummaryRequests[2].ids) = 100
    /\ Len(SummaryRequests[3].ids) = 50

\* The batches whose request was answered with 200 and a list of players.
GoodBatches ==
    {m \in 2..Len(last.answers) :
        Ok(last.answers[m]) /\ last.answers[m].body.shape = "ok"}

\* The players of the good batches that are online and carry an account id.
OnlineReturned ==
    UNION { {last.answers[m].body.players[j] :
                j \in {j \in 1..Len(last.answers[m].body.players) :
                         /\ PersonaState(last.answers[m].body.players[j]) > 0
                         /\ last.answers[m].body.players[j].steamid # None}} :
            m \in GoodBatches }

\* C7: when the request of some batch fails, the call still sends the
\* request of every batch, does not raise, and returns every online friend
\* of the batches that were answered.
C7_FailedBatchIsSkipped ==
    (FriendListGiven /\ \E m \in 2..Len(last.answers) : ~Ok(last.answers[m]))
        => /\ Len(last.requests) = Len(last.answers)
           /\ ~last.raised
           /\ \A p \in OnlineReturned :
                  \E i \in 1..Len(last.friends) : last.friends[i] = FriendInfo(p)

\* C7 witness: of three batches the second failed with 503, and the result
\* holds the online friends of the first and the third.
C7_Witness ==
    /\ FriendListGiven /\ Len(last.answers) = 4
    /\ last.answers[3] = Response(503, NoBody)
    /\ Len(last.requests) = 4
    /\ Len(last.friends) = 2
    /\ last.friends[1].steamid = 1
    /\ last.friends[2].steamid = 3

\* C8: a poll whose primary request failed returns the cached value when the
\* failure is HTTP 502, 503 or 504 and the view has a cached value, and the
\* view's empty value in every other case.
C8_EmptyUnlessTransientAndCached ==
    /\ (last.op = "playing" /\ ~Ok(Primary))
        => last.playing =
               IF Transient(Primary) /\ last.before.currently_playing # None
               THEN last.before.currently_playing[1]
               ELSE NotPlaying
    /\ (last.op = "friends" /\ ~Ok(Primary))
        => last.friends =
               IF Transient(Primary) /\ last.before.friends_data # None
               THEN last.before.friends_data[1]
               ELSE <<>>

\* C8 witness: the connection failed, and the call returned the cached game.
C8_Witness ==
    /\ last.op = "playing" /\ Primary = ClientError(ConnectFailed)
    /\ last.playing.game # None

\* The first player of a 200 answer carries a game id and a game name.
GameGiven ==
    /\ last.op = "playing" /\ Ok(Primary) /\ Primary.body.shape = "ok"
    /\ Primary.body.players # <<>>
    /\ Primary.body.players[1].gameid # None
    /\ Primary.body.players[1].gameextrainfo # None

\* C9: when the first player of a 200 answer carries a game id and a game
\* name, the image URL returned is
\* https://cdn.cloudflare.steamstatic.com/steam/apps/{app_id}/header.jpg
\* for the game id of that answer.
C9_ArtworkFromAppId ==
    GameGiven =>
        last.playing.image =
            Some("https://cdn.cloudflare.steamstatic.com/steam/apps/"
                     \o Primary.body.players[1].gameid[1] \o "/header.jpg")

\* C9 witness: the answer names app 20, and the URL returned is that of
\* app 10, which an earlier poll stored under the same game name.
C9_Witness ==
    /\ GameGiven /\ Primary.body.players[1].gameid = Some("20")
    /\ last.playing.image = Some(LibraryImageUrl("10"))

\* C10: a poll that follows a poll of the same view, with the upstream
\* answering every request as it did then, returns what that poll returned
\* and leaves the attributes of both entities as that poll left them.
C10_Idempotent ==
    [][(last.op # "none" /\ last'.op = last.op /\ last'.answers = last.answers)
          => /\ last'.raised = last.raised
             /\ last'.playing = last.playing
             /\ last'.friends = last.friends
             /\ playing_attributes' = playing_attributes
             /\ friends_attributes' = friends_attributes]_vars

\* C10 witness: the second of two polls in a row with the same answer, which
\* returned a game.
C10_Witness ==
    /\ last.again /\ last.op = "playing"
    /\ last.playing.game # None
    /\ playing_attributes.state = "PLAYING"

\* The payload is a JSON object whose friend and player entries carry an
\* account id.
Sound(body) ==
    /\ body.shape # "null"
    /\ \A i \in 1..Len(body.friends) : body.friends[i].steamid # None
    /\ \A i \in 1..Len(body.players) : body.players[i].steamid # None

\* Every request of the call was answered with HTTP 200 and such a payload.
AllOk ==
    \A i \in 1..Len(last.answers) :
        Ok(last.answers[i]) /\ Sound(last.answers[i].body)

\* C12: after a call whose requests were all answered with HTTP 200, the
\* view's cache entry holds the value the call returned.
C12_SuccessIsCached ==
    /\ (last.op = "playing" /\ AllOk)
        => STEAM_DATA_CACHE.currently_playing = Some(last.playing)
    /\ (last.op = "friends" /\ AllOk)
        => STEAM_DATA_CACHE.friends_data = Some(last.friends)

\* C12 witness: 200 with an empty player list on an empty cache; the call
\* returned (None, None) and the cache entry is still None.
C12_Witness ==
    /\ last.op = "playing" /\ Primary = Response(200, Body("ok", <<>>, <<>>))
    /\ last.playing = NotPlaying
    /\ STEAM_DATA_CACHE.currently_playing = None

\* The player's presence state is given and greater than 0.
Online(p) == p.personastate # None /\ p.personastate[1] > 0

\* The players of a response that are online, in the order of the response.
OnlinePlayers(players) == SelectSeq(players, Online)

\* The entries for the online players of the batch responses from the m-th
\* answer on, batch after batch.
RECURSIVE OnlineFrom(_)
OnlineFrom(m) ==
    IF m > Len(last.answers) THEN <<>>
    ELSE LET online == OnlinePlayers(last.answers[m].body.players)
         IN  [j \in 1..Len(online) |-> FriendInfo(online[j])] \o OnlineFrom(m + 1)

\* C13: a call of get_online_friends whose requests were all answered with
\* 200 returns the entries of the players whose personastate is greater
\* than 0, and of no other, in the order of the batches and within a batch
\* in the order of the response.
C13_OnlineInOrder ==
    (FriendListGiven /\ AllOk) => (~last.raised /\ last.friends = OnlineFrom(2))

\* C13 witness: the first batch answered with an offline and an online
\* player, the second with another online player; the call returned the two
\* online players, first batch first.
C13_Witness ==
    /\ FriendListGiven /\ AllOk /\ Len(last.answers) = 3
    /\ Len(last.answers[2].body.players) = 2
    /\ ~Online(last.answers[2].body.players[1])
    /\ Online(last.answers[2].body.players[2])
    /\ Len(last.answers[3].body.players) = 1
    /\ Len(last.friends) = 2
    /\ last.friends[1] = FriendInfo(last.answers[2].body.players[2])
    /\ last.friends[2] = FriendInfo(last.answers[3].body.players[1])
    /\ last.friends[1] # last.friends[2]

\* C14: after a poll whose primary request failed while the view had no
\* cached value, the entity's attributes differ from those a successful poll
\* leaves that found no game (no friend online).
C14_NoDataIsExplicit ==
    /\ (last.op = "playing" /\ ~Ok(Primary) /\ last.before.currently_playing = None)
        => playing_attributes # update_game_info(GameInfo(NotPlaying))
    /\ (last.op = "friends" /\ ~Ok(Primary) /\ last.before.friends_data = None)
        => friends_attributes # update_friends_info(FriendsInfo(<<>>))

\* C14 witness: the first poll failed with 401, and the entity shows
\* "No game detected" in state OFF.
C14_Witness ==
    /\ last.op = "playing" /\ Primary = Response(401, NoBody)
    /\ last.before.currently_playing = None
    /\ playing_attributes.state = "OFF"
    /\ playing_attributes.media_artist = "No game detected"

\* The outcomes C15 speaks of: a response with a status, and a failure of
\* the network (the connection is reset or refused, the request times out).
Outcome(answer) == answer.kind = "exception" => answer.text = TimedOut

\* The kind of error C15 assigns to an outcome other than 200.
ClaimedKind(answer) ==
    IF answer.kind # "response" THEN "network"
    ELSE IF answer.status = 401 THEN "auth"
    ELSE IF answer.status = 403 THEN "access_denied"
    ELSE IF answer.status \in {502, 503, 504} THEN "transient"
    ELSE "request"

\* The kind a caller reads off the error raised: the message tells it.
RaisedKind(exc) ==
    IF exc.msg[1] = "Network error: " THEN "network"
    ELSE IF Contains(exc.msg, "Invalid API key") THEN "auth"
    ELSE IF Contains(exc.msg, "Access denied") THEN "access_denied"
    ELSE IF Contains(exc.msg, "temporarily unavailable") THEN "transient"
    ELSE IF Contains(exc.msg, "API request failed with status ") THEN "request"
    ELSE "unexpected"

\* C15: _make_request returns the decoded body exactly when the status is
\* 200, and for every other outcome raises the error of the kind the outcome
\* determines; the error for another status carries the status.
C15_ErrorKindByOutcome ==
    \A i \in 1..Len(last.answers) :
        Outcome(last.answers[i]) =>
            LET answer == last.answers[i]
                r == make_request(answer)
            IN  /\ r.exc = None <=> Ok(answer)
                /\ Ok(answer) => r.data = answer.body
                /\ ~Ok(answer) =>
                       /\ r.exc[1].cls = "SteamAPIError"
                       /\ RaisedKind(r.exc[1]) = ClaimedKind(answer)
                       /\ ClaimedKind(answer) = "request" =>
                              Contains(r.exc[1].msg, ToString(answer.status))

\* C15 witness: the request of a poll timed out, and the error raised for
\* it reads "Unexpected error: ", not "Network error: ".
C15_Witness ==
    /\ last.op = "playing" /\ Primary = OtherException(TimedOut)
    /\ make_request(Primary).exc[1].msg[1] = "Unexpected error: "
    /\ last.playing = NotPlaying

\* C16: a call whose requests were all answered with HTTP 200 returns what
\* the same answers give on an empty data cache: nothing of what it returns
\* is read from the data cache.
C16_SuccessReadsNoCache ==
    /\ (last.op = "playing" /\ AllOk)
        => last.playing =
               get_currently_playing(EmptyDataCache, STEAM_ARTWORK_CACHE, Primary).ret
    /\ (last.op = "friends" /\ AllOk)
        => last.friends = get_online_friends(EmptyDataCache, last.answers).ret

\* C16 witness: the friend-list request was answered with 200 and a payload
\* without "friendslist", and the call returned the cached friends.
C16_Witness ==
    /\ last.op = "friends" /\ Primary = Response(200, Body("no_outer", <<>>, <<>>))
    /\ last.before.friends_data # None
    /\ last.friends # <<>>
    /\ last.friends = last.before.friends_data[1]

\* C19: the client has at most one session open, and it is the one it
\* holds; connect and a request create a session only when none is held, and
\* disconnect closes the held session and clears it.
C19_OneSession ==
    /\ [](\A c \in 1..Len(session) :
              /\ session[c].open <= 1
              /\ session[c].held <=> session[c].open = 1)
    /\ [][\A c \in 1..Len(session) :
              /\ session[c].held => session'[c].open <= session[c].open
              /\ session'[c].open > session[c].open
                     => (~session[c].held /\ session'[c].held)
              /\ session'[c].open < session[c].open
                     => (session[c].held /\ ~session'[c].held)]_vars

\* C19 witness: a poll was made, the client holds a session, and one session
\* is open.
C19_Witness ==
    /\ last.op = "playing"
    /\ session[STEAM_CLIENT].held
    /\ session[STEAM_CLIENT].open = 1

\* The last call returned the value the data cache held for its view and
\* stored nothing.
ReturnedCached ==
    /\ ~last.raised
    /\ ~last.stored
    /\ \/ /\ last.op = "playing"
          /\ last.before.currently_playing # None
          /\ last.playing = last.before.currently_playing[1]
          /\ last.playing.game # None
       \/ /\ last.op = "friends"
          /\ last.before.friends_data # None
          /\ last.friends = last.before.friends_data[1]
          /\ last.friends # <<>>

\* C20: cache state does not leak between client instances: what a call
\* into the client for one account returns from the cache was stored by a
\* client for that same account.
C20_NoLeakBetweenAccounts ==
    ReturnedCached => cached_by[last.op] = last.by

\* A client for account B has been called and returned a value from the
\* cache while a client for account A had stored into it.
C20_Witness ==
    /\ ReturnedCached
    /\ last.by = AccountB
    /\ cached_by[last.op] = AccountA

\* The update loop is inside a call into a client.
LoopInCall == loop_task.pc \in {"playing", "friends"}

\* connect_and_start_client is inside get_player_summaries of a client.
ConnectInCall == connect_task.pc = "summaries"

\* C18: no two calls into the same client instance are in progress at once:
\* while the update loop is inside a call on a client, no other code path
\* is inside a call on that same client.
C18_OneCallPerClient ==
    ~(LoopInCall /\ ConnectInCall /\ loop_task.client = connect_task.client)

\* The update loop has entered a call on the client whose first request
\* connect_and_start_client has on the wire.
C18_Witness ==
    /\ LoopInCall
    /\ ConnectInCall
    /\ connect_task.in_flight
    /\ loop_task.client = connect_task.client
    /\ loop_task.client = STEAM_CLIENT

\* The HTTP requests on the wire, each with the task that sent it and the
\* client whose rate limiter admitted it; 0 for the credential test, which
\* acquires none (setup.py:107-108).
RequestsInFlight ==
    (IF setup_task.pc = "testing"
     THEN {[task |-> "setup", limiter |-> 0]} ELSE {})
        \cup (IF connect_task.in_flight
              THEN {[task |-> "connect", limiter |-> connect_task.client]}
              ELSE {})
        \cup (IF loop_task.in_flight
              THEN {[task |-> "loop", limiter |-> loop_task.client]}
              ELSE {})

\* C17: every outbound HTTP request, of any client and of the setup
\* credential test, is sent only after acquiring the rate limiter, and the
\* requests are serialized process-wide: no two are in flight at once.
C17_Serialized ==
    /\ \A q \in RequestsInFlight : q.limiter # 0
    /\ Cardinality(RequestsInFlight) <= 1

\* The credential test and a request of the update loop are on the wire
\* together.
C17_Witness ==
    /\ setup_task.pc = "testing"
    /\ loop_task.in_flight
    /\ Cardinality(RequestsInFlight) = 2

\* Two requests admitted by the rate limiters of two clients are on the
\* wire together.
TwoLimiters ==
    /\ connect_task.in_flight
    /\ loop_task.in_flight
    /\ connect_task.client # loop_task.client

\* The step is the return of the update loop's call of the view.
PlayingReturns ==
    loop_task.pc = "playing" /\ loop_task.in_flight /\ loop_task' # loop_task
FriendsReturns ==
    loop_task.pc = "friends" /\ loop_task.in_flight /\ loop_task' # loop_task

\* C21: a cache entry changes only during a call of its own view's
\* operation: the playing entry only when get_currently_playing returns, the
\* friends entry only when get_online_friends returns; a connection, a
\* disconnection, the end of a sleep, a setup request, a subscription and
\* the entity update of the other view leave it as it was.
C21_CacheFrame ==
    [][/\ STEAM_DATA_CACHE'.currently_playing # STEAM_DATA_CACHE.currently_playing
            => PlayingReturns
       /\ STEAM_DATA_CACHE'.friends_data # STEAM_DATA_CACHE.friends_data
            => FriendsReturns]_vars

\* A call of get_online_friends has stored its list, the friends entity is
\* updated, and the playing entry holds the game it held before; a second
\* client has been connected since that game was stored.
C21_Witness ==
    /\ last.op = "friends"
    /\ last.stored
    /\ last.before.currently_playing # None
    /\ last.before.currently_playing[1].game # None
    /\ STEAM_DATA_CACHE.currently_playing = last.before.currently_playing
    /\ STEAM_DATA_CACHE.friends_data # last.before.friends_data
    /\ Len(session) = MaxClients

\* The view an entity shows.
ViewOf(entity_id) ==
    IF entity_id = "steam_currently_playing" THEN "playing" ELSE "friends"

\* The step handles the command cmd_id.
Handles(cmd_id) == command' # command /\ command'.cmd_id = cmd_id

\* C22: the ON command to an entity triggers an immediate update of that
\* entity's Steam data, a fetch from the client followed by an attribute
\* update within the handling of the command, and returns OK; OFF and
\* PLAY_PAUSE return OK and every other command returns NOT_IMPLEMENTED.
C22_OnTriggersUpdate ==
    [][/\ Handles("on") =>
            /\ command'.status = "OK"
            /\ last' # last
            /\ last'.op = ViewOf(command'.entity_id)
       /\ (Handles("off") \/ Handles("play_pause")) => command'.status = "OK"
       /\ Handles("volume_up") => command'.status = "NOT_IMPLEMENTED"]_vars

\* ON was handled for the friends entity and answered OK while the entity
\* still shows what it showed when it was constructed.
C22_Witness ==
    /\ command = Handled("steam_friends", "on", "OK")
    /\ last.op = "none"
    /\ friends_attributes = FriendsInitialAttributes

\* C23: once started the update loop never ends by an exception: every
\* cycle, one in which a call or an entity update raised included, is
\* followed by the sleep and then by another cycle, so a poll happens
\* infinitely often.
C23_LoopNeverEnds ==
    /\ [](loop_task.pc # "none")
    /\ []<>(loop_task.pc = "sleep")
    /\ []<>(loop_task.pc = "playing" /\ loop_task.in_flight)

\* The request of a new cycle is on the wire after a cycle that an
\* exception cut short behind the playing view: the friends view is
\* subscribed and was not polled.
C23_Witness ==
    /\ loop_task.pc = "playing"
    /\ loop_task.in_flight
    /\ last.op = "playing"
    /\ "steam_friends" \in configured_entities

\* C24: the device state is set to CONNECTED only when the client held in
\* STEAM_CLIENT has completed a successful player-summary request; after a
\* connection attempt that failed and set ERROR, no remote CONNECT event and
\* no subscription sets CONNECTED.
C24_ConnectedOnlyVerified ==
    [][(device_state # "CONNECTED" /\ device_state' = "CONNECTED")
           => STEAM_CLIENT' \in verified']_vars

\* The state is CONNECTED, no connection attempt is running, the request of
\* connect_and_start_client for the client held failed and no call into any
\* client has returned.
C24_Witness ==
    /\ device_state = "CONNECTED"
    /\ connect_task.pc = "idle"
    /\ STEAM_CLIENT # 0
    /\ STEAM_CLIENT \notin verified
    /\ last.op = "none"

\* The clients whose HTTP session is open.
OpenSessions == {c \in 1..Len(session) : session[c].open > 0}

\* C25: every session a client opened is closed before the client is
\* replaced or the process exits: a client that is no longer STEAM_CLIENT
\* holds no open session, at most one session is open at any time, and none
\* after the exit.
C25_SessionsClosed ==
    /\ OpenSessions \subseteq {STEAM_CLIENT}
    /\ Cardinality(OpenSessions) <= 1
    /\ process = "exited" => OpenSessions = {}

\* The process has exited and disconnected its second client; the session
\* of the client it replaced is open.
C25_Witness ==
    /\ process = "exited"
    /\ STEAM_CLIENT = 2
    /\ OpenSessions = {1}

SetupErrors == {"SetupError OTHER", "SetupError AUTHORIZATION_ERROR"}

\* The step answers a setup request with SetupError.
AnswersSetupError ==
    /\ setup_result' \in SetupErrors
    /\ setup_result' # setup_result \/ setup_task' # setup_task

\* C26: whenever the setup handler answers a setup request with SetupError,
\* the configuration in memory holds the steam_api_key and steam_id it held
\* before the request.
C26_ErrorLeavesConfig ==
    [][AnswersSetupError => CONFIG' = CONFIG]_vars

\* A request for account B was answered SetupError OTHER, the configuration
\* in memory names account B and no client was constructed for it.
C26_Witness ==
    /\ setup_result = "SetupError OTHER"
    /\ CONFIG = Config(ApiKey, AccountB)
    /\ \A c \in 1..Len(steam_id) : steam_id[c] # AccountB

\* C27: in each cycle of the update loop get_currently_playing is called
\* only if the playing entity is subscribed and get_online_friends only if
\* the friends entity is, and no call is made without a client; an entity's
\* attributes change only when the poll of its view returns; the playing
\* view comes first: its poll begins only as the sleep ends, the poll of
\* the friends view only then or as the playing poll returns.
C27_PollsSubscribedInOrder ==
    /\ [](loop_task.pc = "playing" =>
              /\ CURRENTLY_PLAYING_ENTITY
              /\ "steam_currently_playing" \in configured_entities
              /\ loop_task.client # 0)
    /\ [](loop_task.pc = "friends" =>
              /\ FRIENDS_ENTITY
              /\ "steam_friends" \in configured_entities
              /\ loop_task.client # 0)
    /\ [][/\ playing_attributes' # playing_attributes => PlayingReturns
          /\ friends_attributes' # friends_attributes => FriendsReturns
          /\ (loop_task.pc # "playing" /\ loop_task'.pc = "playing")
                => loop_task.pc = "sleep"
          /\ (loop_task.pc # "friends" /\ loop_task'.pc = "friends")
                => (loop_task.pc = "sleep" \/ PlayingReturns)]_vars

\* With the playing entity alone subscribed a cycle has ended: the playing
\* entity shows the game polled and the friends entity what it showed when
\* it was constructed.
C27_Witness ==
    /\ loop_task = Sleeping
    /\ configured_entities = {"steam_currently_playing"}
    /\ last.op = "playing"
    /\ last.playing.game # None
    /\ playing_attributes = update_game_info(GameInfo(last.playing))
    /\ friends_attributes = FriendsInitialAttributes

====
